---- MODULE Spec2Model ----
(***************************************************************************)
(* TS-ES-Node (src/src/index.ts): a loader that resolves module            *)
(* specifiers, transpiles typed-source files in memory, wraps them in vm   *)
(* modules, caches them in moduleMap and links their import graph.         *)
(*                                                                         *)
(* Strings are sequences of one-character strings, so that the prefix      *)
(* tests, the URL resolution and the extension test of resolve() are       *)
(* computed character by character.  The alphabet of the model has no      *)
(* '?', '#', '%', '\' or blank, and ':' occurs only in the scheme 'file:'. *)
(***************************************************************************)
EXTENDS Naturals, Sequences, FiniteSets, TLC

None == "none"

(***************************************************************************)
(* String helpers (String.prototype.startsWith, split, join)               *)
(***************************************************************************)
StartsWith(s, p) ==
    /\ Len(s) >= Len(p)
    /\ SubSeq(s, 1, Len(p)) = p

Drop(s, n) == SubSeq(s, n + 1, Len(s))

\* the pieces of s between the separators "/" ("a//b" has an empty piece)
RECURSIVE SplitAcc(_, _, _)
SplitAcc(s, cur, acc) ==
    IF s = <<>> THEN Append(acc, cur)
    ELSE IF Head(s) = "/" THEN SplitAcc(Tail(s), <<>>, Append(acc, cur))
    ELSE SplitAcc(Tail(s), Append(cur, Head(s)), acc)

Split(s) == SplitAcc(s, <<>>, <<>>)

\* "/" before every segment: <<p, a.ts>> is "/p/a.ts", <<>> is "/"
RECURSIVE JoinPath(_)
JoinPath(segs) ==
    IF segs = <<>> THEN <<>>
    ELSE <<"/">> \o Head(segs) \o JoinPath(Tail(segs))

PathOf(segs) == IF segs = <<>> THEN <<"/">> ELSE JoinPath(segs)

Front(s) == SubSeq(s, 1, Len(s) - 1)

(***************************************************************************)
(* new URL(specifier, base) for file: bases (WHATWG URL, path state)       *)
(***************************************************************************)
FileScheme == <<"f", "i", "l", "e", ":">>

DotSeg == <<".">>
DotDotSeg == <<".", ".">>

\* the path state: "." is dropped, ".." removes the segment before it, and
\* either of them in last place leaves a trailing "/"
RECURSIVE PathState(_, _)
PathState(acc, segs) ==
    IF segs = <<>> THEN acc
    ELSE LET seg == Head(segs)
             last == Len(segs) = 1
         IN  IF seg = DotDotSeg
             THEN LET popped == IF acc = <<>> THEN acc ELSE Front(acc)
                  IN  PathState(IF last THEN Append(popped, <<>>) ELSE popped,
                                Tail(segs))
             ELSE IF seg = DotSeg
             THEN PathState(IF last THEN Append(acc, <<>>) ELSE acc, Tail(segs))
             ELSE PathState(Append(acc, seg), Tail(segs))

\* the segments of an absolute path "/p/a.ts" (the piece before the first "/" is empty)
PathSegs(path) == IF path = <<>> THEN <<>> ELSE Tail(Split(path))

\* a file: URL string taken apart: "file://" host path
ParseFileURL(u) ==
    LET rest == Drop(u, Len(FileScheme))
        afterSlashes == Drop(rest, 2)
        pieces == Split(afterSlashes)
    IN  IF StartsWith(rest, <<"/", "/">>)
        THEN [host |-> Head(pieces),
              segs |-> PathState(<<>>, Tail(pieces))]
        ELSE [host |-> <<>>, segs |-> PathState(<<>>, PathSegs(rest))]

Href(protocol, host, segs) == protocol \o <<"/", "/">> \o host \o PathOf(segs)

URLRecord(host, segs) ==
    [protocol |-> FileScheme,
     host     |-> host,
     pathname |-> PathOf(segs),
     href     |-> Href(FileScheme, host, segs)]

NewURL(specifier, base) ==
    LET b == ParseFileURL(base)
    IN  IF StartsWith(specifier, FileScheme)
        THEN LET rest == Drop(specifier, Len(FileScheme))
             IN  IF StartsWith(rest, <<"/">>)
                 THEN LET p == ParseFileURL(specifier)
                      IN  URLRecord(p.host, p.segs)
                 ELSE URLRecord(b.host, PathState(Front(b.segs), Split(rest)))
        ELSE IF StartsWith(specifier, <<"/", "/">>)
        THEN LET p == ParseFileURL(FileScheme \o specifier)
             IN  URLRecord(p.host, p.segs)
        ELSE IF StartsWith(specifier, <<"/">>)
        THEN URLRecord(b.host, PathState(<<>>, PathSegs(specifier)))
        ELSE URLRecord(b.host, PathState(Front(b.segs), Split(specifier)))

(***************************************************************************)
(* path.extname, path.dirname, fileURLToPath                               *)
(***************************************************************************)
RECURSIVE StripTrailingSlashes(_)
StripTrailingSlashes(p) ==
    IF Len(p) > 1 /\ p[Len(p)] = "/" THEN StripTrailingSlashes(Front(p)) ELSE p

Basename(p) ==
    LET q == StripTrailingSlashes(p)
        pieces == Split(q)
    IN  pieces[Len(pieces)]

LastDot(s) ==
    LET dots == {i \in 1..Len(s) : s[i] = "."}
    IN  IF dots = {} THEN 0 ELSE CHOOSE i \in dots : \A j \in dots : j <= i

\* path.extname: from the last "." of the basename, "" when there is none or
\* when the basename only starts with it
ExtName(p) ==
    LET base == Basename(p)
        d == LastDot(base)
    IN  IF d <= 1 \/ base = DotDotSeg THEN <<>> ELSE Drop(base, d - 1)

DirName(p) ==
    LET segs == PathSegs(StripTrailingSlashes(p))
    IN  IF Len(segs) <= 1 THEN <<"/">> ELSE JoinPath(Front(segs))

\* fileURLToPath: the pathname; a file URL with a host is refused on POSIX
FileURLToPath(u) == PathOf(ParseFileURL(u).segs)

FileURLHasHost(u) == ParseFileURL(u).host # <<>>

(***************************************************************************)
(* The files on disk.  Typed-source files carry the import specifiers of   *)
(* their text (static imports, and the dynamic imports their body awaits   *)
(* one after the other) and whether the type checker reports diagnostics.  *)
(***************************************************************************)
TsExt == <<".", "t", "s">>
TsxExt == <<".", "t", "s", "x">>
JsExt == <<".", "j", "s">>

\* src/src/index.ts:18
TS_EXTENSIONS == <<TsExt, TsxExt>>

InP(name) == <<"/", "p", "/">> \o name
InQ(name) == <<"/", "q", "/">> \o name
Here(name) == <<".", "/">> \o name
UpP(name) == <<".", ".", "/", "p", "/">> \o name
UpQ(name) == <<".", ".", "/", "q", "/">> \o name

FileURL(path) == FileScheme \o <<"/", "/">> \o path

\* a source file: its static and dynamic import specifiers, the diagnostics
\* the pre-emit pass reports for it, and whether its body throws
Src(imports, dynamics, diagnostics, throws) ==
    [imports |-> imports, dynamics |-> dynamics, diagnostics |-> diagnostics,
     throws |-> throws]

PA == InP(<<"a">> \o TsExt)
PB == InP(<<"b">> \o TsExt)
PC == InP(<<"c">> \o TsExt)
PD == InP(<<"d">> \o TsExt)
PE == InP(<<"e">> \o TsExt)
PF == InP(<<"f">> \o TsExt)
QG == InQ(<<"g">> \o TsExt)
PH == InP(<<"h">> \o TsExt)
PK == InP(<<"k">> \o TsExt)
PN == InP(<<"n">> \o TsExt)
PS == InP(<<"s">> \o TsExt)
PX == InP(<<"x">> \o TsExt)
PY == InP(<<"y">> \o TsExt)
PR == InP(<<"r">> \o TsExt)
PT == InP(<<"t">> \o TsExt)
PW == InP(<<"w">> \o TsExt)
PWX == InP(<<"w">> \o TsxExt)
PLib == InP(<<"l">> \o JsExt)
PZero == InP(<<"z">> \o JsExt)
BarePkg == <<"n", "m">>

TypedFiles ==
    {PA, PB, PC, PD, PE, PF, QG, PH, PK, PN, PR, PS, PT, PX, PY, PW, PWX}

SourceOf(path) ==
    CASE path = PA -> Src(<<Here(<<"b">>)>>, <<>>, <<>>, FALSE)
      [] path = PB -> Src(<<Here(<<"a">> \o TsExt)>>, <<>>, <<>>, FALSE)
      [] path = PC -> Src(<<Here(<<"d">> \o TsExt)>>, <<>>, <<>>, FALSE)
      [] path = PD -> Src(<<Here(<<"e">> \o TsExt)>>, <<>>, <<>>, FALSE)
      [] path = PE -> Src(<<>>, <<>>, <<>>, FALSE)
      [] path = PF -> Src(<<Here(<<"d">> \o TsExt), UpQ(<<"g">> \o TsExt)>>,
                          <<>>, <<>>, FALSE)
      [] path = QG -> Src(<<UpP(<<"e">> \o TsExt)>>, <<>>, <<>>, FALSE)
      [] path = PH -> Src(<<>>, <<Here(<<"d">> \o TsExt), Here(<<"d">> \o TsExt)>>,
                          <<>>, FALSE)
      [] path = PK -> Src(<<>>, <<Here(<<"y">> \o TsExt), Here(<<"x">> \o TsExt),
                                  Here(<<"x">> \o TsExt)>>, <<>>, FALSE)
      [] path = PN -> Src(<<Here(<<"h">> \o TsExt)>>, <<Here(<<"d">> \o TsExt)>>,
                          <<>>, FALSE)
      [] path = PS -> Src(<<Here(<<"l">> \o JsExt), UpP(<<"l">> \o JsExt),
                            Here(<<"z">> \o JsExt), BarePkg>>, <<>>, <<>>, FALSE)
      [] path = PR -> Src(<<Here(<<"t">> \o TsExt)>>, <<>>, <<>>, FALSE)
      [] path = PT -> Src(<<Here(<<"e">> \o TsExt)>>, <<>>, <<>>, TRUE)
      [] path = PX -> Src(<<>>, <<>>, <<"TS2322", "TS2304">>, FALSE)
      [] path = PY -> Src(<<Here(<<"x">> \o TsExt)>>, <<>>, <<>>, FALSE)
      [] OTHER -> Src(<<>>, <<>>, <<>>, FALSE)

\* values of native exports: a primitive number, or an object with properties
Num(n) == [t |-> "num", v |-> n]
Obj(props) == [t |-> "obj", props |-> props]

\* what the host's import(url) yields: the namespace of a native module
NativeURLs == {FileURL(PLib), FileURL(PZero), BarePkg}

NativeNamespace(url) ==
    CASE url = FileURL(PLib) ->
            [default |-> Obj([a |-> Num(1), b |-> Num(1)]), a |-> Num(2)]
      [] url = FileURL(PZero) -> [default |-> Num(0), d |-> Num(4)]
      [] OTHER -> [c |-> Num(3)]

ExistingFiles == TypedFiles \cup {PLib, PZero}

(***************************************************************************)
(* globby(`${specifier}{.ts,.tsx}`, {cwd, absolute: true})                 *)
(***************************************************************************)
DirSegs(dir) == IF dir = <<"/">> THEN <<>> ELSE PathSegs(dir)

GlobCandidate(specifier, cwd, ext) ==
    IF StartsWith(specifier, <<"/">>)
    THEN PathOf(PathState(<<>>, PathSegs(specifier \o ext)))
    ELSE PathOf(PathState(DirSegs(cwd), Split(specifier \o ext)))

Globby(specifier, cwd) ==
    IF StartsWith(specifier, FileScheme) THEN <<>>
    ELSE SelectSeq(<<GlobCandidate(specifier, cwd, TS_EXTENSIONS[1]),
                     GlobCandidate(specifier, cwd, TS_EXTENSIONS[2])>>,
                   LAMBDA f : f \in ExistingFiles)

(***************************************************************************)
(* resolve(specifier, parentModuleURL, defaultResolverFn)                  *)
(***************************************************************************)
\* new RegExp('^.{0,2}[/]').test(specifier)
ModTester(specifier) ==
    \E k \in 0..2 : Len(specifier) > k /\ specifier[k + 1] = "/"

\* the host's default resolver, when one is passed: its answer is the host's
DefaultResolver(fallback, specifier, parentModuleURL) ==
    [format |-> fallback, url |-> <<"h", ":">> \o specifier]

IsBare(specifier) ==
    ~ModTester(specifier) /\ ~StartsWith(specifier, FileScheme)

\* a resolver that takes the first match when several files match
AtLeastOne(possibleFiles) == Len(possibleFiles) >= 1

\* possibleFiles.length === 1
ExactlyOne(possibleFiles) == Len(possibleFiles) = 1

\* TS_EXTENSIONS.includes(ext)
IsTsExtension(ext) == \E i \in 1..Len(TS_EXTENSIONS) : TS_EXTENSIONS[i] = ext

\* the part of resolve() after the bare-package test
ResolvePath(specifier, parentModuleURL) ==
    LET resolved == NewURL(specifier, parentModuleURL)
        ext == ExtName(resolved.pathname)
        infer == ext = <<>> /\ resolved.protocol = FileScheme
        possibleFiles ==
            IF infer
            THEN Globby(specifier, DirName(FileURLToPath(parentModuleURL)))
            ELSE <<>>
    IN  IF infer /\ ExactlyOne(possibleFiles)
        THEN [url |-> FileURL(possibleFiles[1]), format |-> "dynamic"]
        ELSE IF IsTsExtension(ext)
        THEN [format |-> "dynamic", url |-> resolved.href]
        ELSE [url |-> resolved.href, format |-> "module"]

Resolve(specifier, parentModuleURL, defaultResolverFn) ==
    IF IsBare(specifier)
    THEN IF defaultResolverFn # None
         THEN DefaultResolver(defaultResolverFn, specifier, parentModuleURL)
         ELSE [format |-> "module", url |-> specifier]
    ELSE ResolvePath(specifier, parentModuleURL)

(***************************************************************************)
(* State                                                                   *)
(***************************************************************************)
VARIABLES
    entry,      \* the URL the host passes to dynamicInstantiate
    host,       \* the host around dynamicInstantiate and execute
    tasks,      \* the asynchronous calls in flight or settled, in call order
    modules,    \* the vm module objects built so far, in construction order
    moduleMap,  \* const moduleMap: resolved URL -> module (src/src/index.ts:20)
    rootPath,   \* the active project root kept by setRootPath
    compiles,   \* URL -> number of transpileTypeScriptToModule invocations
    exited,     \* process.exit was called
    rcall,      \* the last call of the resolve hook by the host, and its answer
    logged,     \* the errors passed to console.error, in order
    exitStatus  \* the status codes passed to process.exit, in order

vars ==
    <<entry, host, tasks, modules, moduleMap, rootPath, compiles, exited, rcall,
      logged, exitStatus>>

EntryURLs ==
    {FileURL(PA), FileURL(PC), FileURL(PF), FileURL(PH), FileURL(PK),
     FileURL(PN), FileURL(PR), FileURL(PS), FileURL(PT), FileURL(PX),
     FileURL(PY)}

TaskIds == DOMAIN tasks
ModuleIds == DOMAIN modules

BuildingPcs == {"read", "config", "diag"}

(***************************************************************************)
(* The module cache: moduleMap.has / get / set                             *)
(***************************************************************************)
\* a linker that never finds a module in the cache
CacheHasNever(url) == FALSE

CacheHas(url) == url \in DOMAIN moduleMap

CacheGet(url) == IF url \in DOMAIN moduleMap THEN moduleMap[url] ELSE 0

\* a cache in which the first insertion for a URL wins
CacheSetIfAbsent(url, m) == moduleMap @@ (url :> m)

CacheSet(url, m) == (url :> m) @@ moduleMap

Bump(url) ==
    IF url \in DOMAIN compiles
    THEN [compiles EXCEPT ![url] = @ + 1]
    ELSE (url :> 1) @@ compiles

(***************************************************************************)
(* Module objects                                                          *)
(***************************************************************************)
ImportsOf(url) == SourceOf(FileURLToPath(url)).imports
DynamicsOf(url) == SourceOf(FileURLToPath(url)).dynamics

\* a module left with the identifier the vm library gives it by default
SourceTextModuleDefaultUrl(sourcePathURLString) ==
    [kind      |-> "source",
     url       |-> <<"v", "m", ":", "m", "o", "d", "u", "l", "e">>,
     metaUrl   |-> sourcePathURLString,
     status    |-> "unlinked",
     deps      |-> [i \in 1..Len(ImportsOf(sourcePathURLString)) |-> 0],
     linkCalls |-> 0,
     evalCount |-> 0,
     dynPos    |-> 0,
     names     |-> {},
     bag       |-> <<>>,
     exports   |-> <<>>]

\* new SourceTextModule(...), then sourceTextModule.url = sourcePathURLString
SourceTextModule(sourcePathURLString) ==
    [kind      |-> "source",
     url       |-> sourcePathURLString,
     metaUrl   |-> sourcePathURLString,
     status    |-> "unlinked",
     deps      |-> [i \in 1..Len(ImportsOf(sourcePathURLString)) |-> 0],
     linkCalls |-> 0,
     evalCount |-> 0,
     dynPos    |-> 0,
     names     |-> {},
     bag       |-> <<>>,
     exports   |-> <<>>]

\* if (link.default) link = { ...link.default, ...link }
Truthy(v) == v.t = "obj" \/ v.v # 0

PropsOf(v) == IF v.t = "obj" THEN v.props ELSE <<>>

\* a flattening in which the properties of the default export win
FlattenDefaultWins(link) ==
    IF "default" \in DOMAIN link /\ Truthy(link["default"])
    THEN PropsOf(link["default"]) @@ link
    ELSE link

Flatten(link) ==
    IF "default" \in DOMAIN link /\ Truthy(link["default"])
    THEN link @@ PropsOf(link["default"])
    ELSE link

\* new SyntheticModule(linkKeys, function() {...setExport...}, {context})
SyntheticModule(url, link) ==
    [kind      |-> "synthetic",
     url       |-> url,
     metaUrl   |-> <<>>,
     status    |-> "unlinked",
     deps      |-> <<>>,
     linkCalls |-> 0,
     evalCount |-> 0,
     dynPos    |-> 0,
     names     |-> DOMAIN link,
     bag       |-> link,
     exports   |-> <<>>]

StaticImports(m, mods) ==
    IF mods[m].kind = "source" THEN ImportsOf(mods[m].url) ELSE <<>>

(***************************************************************************)
(* Calls                                                                   *)
(***************************************************************************)
\* a linker that hands resolve a fallback resolver answering 'builtin'
LinkerCallWithFallback(kind, specifier, parent, slot, mods) ==
    LET r == Resolve(specifier, mods[parent].url, "builtin")
    IN  [kind      |-> kind,
         pc        |-> "resolved",
         specifier |-> specifier,
         parent    |-> parent,
         slot      |-> slot,
         url       |-> r.url,
         format    |-> r.format,
         mod       |-> 0,
         err       |-> None,
         built     |-> 0,
         root      |-> <<>>,
         cached    |-> CacheHas(r.url),
         alone     |-> TRUE,
         transformed |-> FALSE,
         diagnostics |-> <<>>,
         carried     |-> <<>>]

\* linker(specifier, parentModule) up to its first suspension: the call of
\* resolve(specifier, parentModule.url), with no fallback resolver
LinkerCall(kind, specifier, parent, slot, mods) ==
    LET r == Resolve(specifier, mods[parent].url, None)
    IN  [kind      |-> kind,
         pc        |-> "resolved",
         specifier |-> specifier,
         parent    |-> parent,
         slot      |-> slot,
         url       |-> r.url,
         format    |-> r.format,
         mod       |-> 0,
         err       |-> None,
         built     |-> 0,
         root      |-> <<>>,
         cached    |-> CacheHas(r.url),
         alone     |-> TRUE,
         transformed |-> FALSE,
         diagnostics |-> <<>>,
         carried     |-> <<>>]

\* a linker call that has not returned yet
InFlight(task) ==
    task.kind # "inst" /\ task.pc \in {"resolved", "importing"} \cup BuildingPcs

\* the calls of ts followed by the new ones; alone records that a linker
\* call was never in flight together with another one for the same URL
Spawn(ts, new) ==
    LET all == ts \o new
    IN  [i \in DOMAIN all |->
           [all[i] EXCEPT !.alone =
              /\ @
              /\ ~\E j \in DOMAIN all :
                    /\ j # i
                    /\ (i > Len(ts) \/ j > Len(ts))
                    /\ all[j].url = all[i].url
                    /\ InFlight(all[i])
                    /\ InFlight(all[j])]]

\* module[kLink](linker): one linker call for every static import specifier
LinkCalls(m, mods) ==
    LET imports == StaticImports(m, mods)
    IN  [i \in 1..Len(imports) |-> LinkerCall("import", imports[i], m, i, mods)]

StartLink(m, mods) ==
    [mods EXCEPT ![m].status = "linking", ![m].linkCalls = @ + 1]

Fail(t, err) == [tasks EXCEPT ![t].pc = "failed", ![t].err = err]

ChildrenOf(m) ==
    {j \in TaskIds : tasks[j].kind = "import" /\ tasks[j].parent = m}

NoResult == [format |-> None, url |-> <<>>]

NoCall == [pc |-> "idle", specifier |-> <<>>, parent |-> <<>>, fallback |-> None,
           glob |-> <<>>, result |-> NoResult]

Init ==
    /\ entry \in EntryURLs
    /\ host = "idle"
    /\ tasks = <<>>
    /\ modules = <<>>
    /\ moduleMap = <<>>
    /\ rootPath = <<>>
    /\ compiles = <<>>
    /\ exited = FALSE
    /\ rcall = NoCall
    /\ logged = <<>>
    /\ exitStatus = <<>>

(***************************************************************************)
(* The resolve hook, called by the host                                    *)
(***************************************************************************)
MaxSpecLen == 3

SpecAlphabet == {".", "/", "a", "w"}

ShortSpecifiers == UNION {[1..n -> SpecAlphabet] : n \in 1..MaxSpecLen}

Specifiers ==
    ShortSpecifiers \cup
    {Here(<<"b">>), Here(<<"b">> \o TsExt), Here(<<"w">> \o TsxExt),
     Here(<<"l">> \o JsExt), UpQ(<<"g">>), UpQ(<<"g">> \o TsExt), InP(<<"b">>),
     InP(<<"w">>), BarePkg, <<"a", "b", "/", "c">>, FileURL(PD),
     FileURL(InP(<<"b">>)), FileScheme, Here(<<"a", ".">>)}

Referrers == {FileURL(PA), FileURL(QG)}

\* no fallback resolver, or the host's default resolver answering a format
Fallbacks == {None, "commonjs", "builtin"}

InitResolve ==
    /\ entry = FileURL(PA)
    /\ host = "idle"
    /\ tasks = <<>>
    /\ modules = <<>>
    /\ moduleMap = <<>>
    /\ rootPath = <<>>
    /\ compiles = <<>>
    /\ exited = FALSE
    /\ logged = <<>>
    /\ exitStatus = <<>>
    /\ \E specifier \in Specifiers, parent \in Referrers, fallback \in Fallbacks :
          rcall = [pc |-> "called", specifier |-> specifier, parent |-> parent,
                   fallback |-> fallback, glob |-> <<>>, result |-> NoResult]

\* resolve(specifier, parentModuleURL, defaultResolverFn) answers; glob is
\* what the glob collaborator answers for this specifier and referrer
ResolveReturn ==
    /\ rcall.pc = "called"
    /\ rcall' = [rcall EXCEPT
                   !.pc = "returned",
                   !.glob = Globby(rcall.specifier,
                                   DirName(FileURLToPath(rcall.parent))),
                   !.result = Resolve(rcall.specifier, rcall.parent,
                                      rcall.fallback)]
    /\ UNCHANGED <<entry, host, tasks, modules, moduleMap, rootPath, compiles,
                   exited, logged, exitStatus>>

NextResolve == ResolveReturn

SpecResolve == InitResolve /\ [][NextResolve]_vars

(***************************************************************************)
(* dynamicInstantiate(url)                                                 *)
(***************************************************************************)
\* the host calls dynamicInstantiate: transpileTypeScriptToModule(url) runs
\* up to its await of fs.readFile
Instantiate ==
    /\ host = "idle"
    /\ ~exited
    /\ host' = "instantiating"
    /\ tasks' = Append(tasks,
          [kind |-> "inst", pc |-> "read", specifier |-> <<>>, parent |-> 0,
           slot |-> 0, url |-> entry, format |-> "dynamic", mod |-> 0,
           err |-> None, built |-> 1, root |-> <<>>, cached |-> FALSE,
           alone |-> TRUE, transformed |-> FALSE, diagnostics |-> <<>>,
           carried |-> <<>>])
    /\ compiles' = Bump(entry)
    /\ UNCHANGED <<entry, modules, moduleMap, rootPath,
                   exited, rcall, logged, exitStatus>>

(***************************************************************************)
(* transpileTypeScriptToModule(sourcePathURLString)                        *)
(***************************************************************************)
Readable(url) == ~FileURLHasHost(url) /\ FileURLToPath(url) \in ExistingFiles

\* fs.readFile settled; setRootPath(dirname); getTSConfig(dirname) is awaited
ReadDone(t) ==
    /\ ~exited
    /\ tasks[t].pc = "read"
    /\ IF Readable(tasks[t].url)
       THEN /\ rootPath' = DirName(FileURLToPath(tasks[t].url))
            /\ tasks' = [tasks EXCEPT ![t].pc = "config"]
       ELSE /\ tasks' = Fail(t, "ENOENT")
            /\ UNCHANGED rootPath
    /\ UNCHANGED <<entry, host, modules, moduleMap, compiles,
                   exited, rcall, logged, exitStatus>>

\* getTSConfig settled; ts.createProgram runs under the active project root;
\* ts.getPreEmitDiagnostics(program) is awaited
ConfigDone(t) ==
    /\ ~exited
    /\ tasks[t].pc = "config"
    /\ tasks' = [tasks EXCEPT ![t].pc = "diag", ![t].root = rootPath]
    /\ UNCHANGED <<entry, host, modules, moduleMap, rootPath, compiles,
                   exited, rcall, logged, exitStatus>>

\* const diagnostics = await ts.getPreEmitDiagnostics(program)
PreEmitDiagnostics(url) == SourceOf(FileURLToPath(url)).diagnostics

\* diagnostics.length
HasDiagnostics(url) == Len(PreEmitDiagnostics(url)) # 0

\* ts.transpileModule has run and the diagnostics of t's file are known
Transpiled(ts, t) ==
    [ts EXCEPT ![t].transformed = TRUE,
               ![t].diagnostics = PreEmitDiagnostics(ts[t].url)]

\* an error built from the first diagnostic alone
CreateTSErrorFirst(ts, t) ==
    [ts EXCEPT ![t].pc = "failed", ![t].err = "TSError",
               ![t].carried = <<Head(ts[t].diagnostics)>>]

\* throw createTSError(diagnostics)
CreateTSError(ts, t) ==
    [ts EXCEPT ![t].pc = "failed", ![t].err = "TSError",
               ![t].carried = ts[t].diagnostics]

\* a linker that stores the module of a build that failed
BuildFailedCached(t) ==
    /\ ~exited
    /\ tasks[t].pc = "diag"
    /\ HasDiagnostics(tasks[t].url)
    /\ tasks' = CreateTSError(Transpiled(tasks, t), t)
    /\ modules' = Append(modules, SourceTextModule(tasks[t].url))
    /\ moduleMap' = IF tasks[t].kind = "inst" THEN moduleMap
                    ELSE (tasks[t].url :> Len(modules) + 1) @@ moduleMap
    /\ UNCHANGED <<entry, host, rootPath, compiles,
                   exited, rcall, logged, exitStatus>>

\* transpileModule; if (diagnostics.length) throw createTSError(diagnostics)
BuildFailed(t) ==
    /\ ~exited
    /\ tasks[t].pc = "diag"
    /\ HasDiagnostics(tasks[t].url)
    /\ tasks' = CreateTSError(Transpiled(tasks, t), t)
    /\ UNCHANGED <<entry, host, modules, moduleMap, rootPath, compiles,
                   exited, rcall, logged, exitStatus>>

(***************************************************************************)
(* linker(specifier, parentModule)                                         *)
(***************************************************************************)
\* after await resolve(...): the branch on the format
LinkerResume(t) ==
    /\ ~exited
    /\ tasks[t].pc = "resolved"
    /\ IF tasks[t].format \in {"commonjs", "module"}
       THEN /\ tasks' = [tasks EXCEPT ![t].pc = "importing"]
            /\ UNCHANGED compiles
       ELSE IF tasks[t].format = "dynamic"
       THEN IF CacheHas(tasks[t].url)
            THEN /\ tasks' = [tasks EXCEPT ![t].pc = "returned",
                                           ![t].mod = CacheGet(tasks[t].url)]
                 /\ UNCHANGED compiles
            ELSE /\ tasks' = [tasks EXCEPT ![t].pc = "read", ![t].built = 1]
                 /\ compiles' = Bump(tasks[t].url)
       ELSE /\ tasks' = Fail(t, "INVALID Import type")
            /\ UNCHANGED compiles
    /\ UNCHANGED <<entry, host, modules, moduleMap, rootPath,
                   exited, rcall, logged, exitStatus>>

\* const newModule = await transpileTypeScriptToModule(url);
\* moduleMap.set(url, newModule); return newModule
LinkerBuilt(t) ==
    /\ ~exited
    /\ tasks[t].kind # "inst"
    /\ tasks[t].pc = "diag"
    /\ ~HasDiagnostics(tasks[t].url)
    /\ LET m == Len(modules) + 1
       IN  /\ modules' = Append(modules, SourceTextModule(tasks[t].url))
           /\ moduleMap' = CacheSet(tasks[t].url, m)
           /\ tasks' = [Transpiled(tasks, t) EXCEPT ![t].pc = "returned",
                                                    ![t].mod = m]
    /\ UNCHANGED <<entry, host, rootPath, compiles,
                   exited, rcall, logged, exitStatus>>

\* a linker that stores the modules it builds for native imports in the cache
NativeImportedCached(t) ==
    /\ ~exited
    /\ tasks[t].pc = "importing"
    /\ IF tasks[t].url \in NativeURLs
       THEN LET m == Len(modules) + 1
                link == Flatten(NativeNamespace(tasks[t].url))
            IN  /\ modules' = Append(modules, SyntheticModule(tasks[t].url, link))
                /\ moduleMap' = CacheSet(tasks[t].url, m)
                /\ tasks' = [tasks EXCEPT ![t].pc = "returned", ![t].mod = m]
       ELSE /\ tasks' = Fail(t, "ERR_MODULE_NOT_FOUND")
            /\ UNCHANGED <<modules, moduleMap>>
    /\ UNCHANGED <<entry, host, rootPath, compiles, exited, rcall, logged,
                   exitStatus>>

\* let link = await import(url); flatten; return new SyntheticModule(...)
NativeImported(t) ==
    /\ ~exited
    /\ tasks[t].pc = "importing"
    /\ IF tasks[t].url \in NativeURLs
       THEN LET m == Len(modules) + 1
                link == Flatten(NativeNamespace(tasks[t].url))
            IN  /\ modules' = Append(modules, SyntheticModule(tasks[t].url, link))
                /\ tasks' = [tasks EXCEPT ![t].pc = "returned", ![t].mod = m]
       ELSE /\ tasks' = Fail(t, "ERR_MODULE_NOT_FOUND")
            /\ UNCHANGED modules
    /\ UNCHANGED <<entry, host, moduleMap, rootPath, compiles,
                   exited, rcall, logged, exitStatus>>

\* a dynamicInstantiate that starts the link step and does not await it
InstantiateBuiltNoAwait(t) ==
    /\ ~exited
    /\ tasks[t].kind = "inst"
    /\ tasks[t].pc = "diag"
    /\ ~HasDiagnostics(tasks[t].url)
    /\ LET m == Len(modules) + 1
           mods == Append(modules, SourceTextModule(tasks[t].url))
       IN  /\ modules' = StartLink(m, mods)
           /\ tasks' = Spawn([Transpiled(tasks, t) EXCEPT ![t].pc = "done",
                                                          ![t].mod = m],
                               LinkCalls(m, mods))
    /\ host' = "ready"
    /\ UNCHANGED <<entry, moduleMap, rootPath, compiles,
                   exited, rcall, logged, exitStatus>>

\* const sourceTextModule = await transpileTypeScriptToModule(url);
\* await sourceTextModule.link(linker)
InstantiateBuilt(t) ==
    /\ ~exited
    /\ tasks[t].kind = "inst"
    /\ tasks[t].pc = "diag"
    /\ ~HasDiagnostics(tasks[t].url)
    /\ LET m == Len(modules) + 1
           mods == Append(modules, SourceTextModule(tasks[t].url))
       IN  /\ modules' = StartLink(m, mods)
           /\ tasks' = Spawn([Transpiled(tasks, t) EXCEPT ![t].pc = "linkwait",
                                                          ![t].mod = m],
                               LinkCalls(m, mods))
    /\ UNCHANGED <<entry, host, moduleMap, rootPath, compiles,
                   exited, rcall, logged, exitStatus>>

\* return { exports: [], execute: () => sourceTextModule.evaluate() }
InstantiateReturn(t) ==
    /\ ~exited
    /\ tasks[t].kind = "inst"
    /\ tasks[t].pc = "linkwait"
    /\ \A j \in ChildrenOf(tasks[t].mod) : tasks[j].pc = "done"
    /\ modules' = [modules EXCEPT ![tasks[t].mod].status = "linked"]
    /\ tasks' = [tasks EXCEPT ![t].pc = "done"]
    /\ host' = "ready"
    /\ UNCHANGED <<entry, moduleMap, rootPath, compiles,
                   exited, rcall, logged, exitStatus>>

\* a catch block that reports the failure to the invoking shell
InstantiateCatchNonZero(t) ==
    /\ ~exited
    /\ tasks[t].kind = "inst"
    /\ tasks[t].pc = "failed"
    /\ logged' = Append(logged, tasks[t].err)
    /\ exitStatus' = Append(exitStatus, 1)
    /\ exited' = TRUE
    /\ host' = "exited"
    /\ UNCHANGED <<entry, tasks, modules, moduleMap, rootPath, compiles, rcall>>

\* catch (err) { console.error(err); process.exit(0) }
InstantiateCatch(t) ==
    /\ ~exited
    /\ tasks[t].kind = "inst"
    /\ tasks[t].pc = "failed"
    /\ logged' = Append(logged, tasks[t].err)
    /\ exitStatus' = Append(exitStatus, 0)
    /\ exited' = TRUE
    /\ host' = "exited"
    /\ UNCHANGED <<entry, tasks, modules, moduleMap, rootPath, compiles, rcall>>

(***************************************************************************)
(* The vm module objects: link and evaluate.  A module's link step calls   *)
(* the linker once for every static import specifier, all at once, and     *)
(* links every module it gets back that is still unlinked; it is settled   *)
(* when all of these are, or as soon as one of them fails.                 *)
(***************************************************************************)
\* the link step's use of a module the linker returned
LinkCallback(t) ==
    /\ ~exited
    /\ tasks[t].kind = "import"
    /\ tasks[t].pc = "returned"
    /\ LET r == tasks[t].mod
       IN  IF modules[r].status = "errored"
           THEN /\ tasks' = Fail(t, "ERR_VM_MODULE_LINKING_ERRORED")
                /\ UNCHANGED modules
           ELSE IF modules[r].status = "unlinked"
           THEN /\ modules' = StartLink(r, modules)
                /\ tasks' = Spawn([tasks EXCEPT ![t].pc = "linkwait"],
                                     LinkCalls(r, modules))
           ELSE /\ modules' = [modules EXCEPT
                                 ![tasks[t].parent].deps[tasks[t].slot] = r]
                /\ tasks' = [tasks EXCEPT ![t].pc = "done"]
    /\ UNCHANGED <<entry, host, moduleMap, rootPath, compiles,
                   exited, rcall, logged, exitStatus>>

\* the link step of the returned module is fulfilled: the import is bound
LinkFulfilled(t) ==
    /\ ~exited
    /\ tasks[t].kind = "import"
    /\ tasks[t].pc = "linkwait"
    /\ \A j \in ChildrenOf(tasks[t].mod) : tasks[j].pc = "done"
    /\ modules' = [modules EXCEPT
                     ![tasks[t].mod].status = "linked",
                     ![tasks[t].parent].deps[tasks[t].slot] = tasks[t].mod]
    /\ tasks' = [tasks EXCEPT ![t].pc = "done"]
    /\ UNCHANGED <<entry, host, moduleMap, rootPath, compiles,
                   exited, rcall, logged, exitStatus>>

\* one linker call or nested link step of the module failed
LinkRejected(t) ==
    /\ ~exited
    /\ tasks[t].pc = "linkwait"
    /\ \E j \in ChildrenOf(tasks[t].mod) : tasks[j].pc = "failed"
    /\ modules' = [modules EXCEPT ![tasks[t].mod].status = "errored"]
    /\ tasks' = Fail(t, "LinkError")
    /\ UNCHANGED <<entry, host, moduleMap, rootPath, compiles,
                   exited, rcall, logged, exitStatus>>

\* evaluation order of module.evaluate(): imports first, every module once
RECURSIVE Visit(_, _)
RECURSIVE VisitAll(_, _)
Visit(m, acc) ==
    IF m = 0 \/ m \in acc.seen \/ modules[m].evalCount > 0 THEN acc
    ELSE LET below == VisitAll(modules[m].deps,
                               [seen |-> acc.seen \cup {m}, order |-> acc.order])
         IN  [seen |-> below.seen, order |-> Append(below.order, m)]

VisitAll(ms, acc) ==
    IF ms = <<>> THEN acc ELSE VisitAll(Tail(ms), Visit(Head(ms), acc))

EvalOrder(m) == Visit(m, [seen |-> {}, order |-> <<>>]).order

InSeq(x, seq) == \E i \in 1..Len(seq) : seq[i] = x

HasDynamics(m) ==
    modules[m].kind = "source" /\ DynamicsOf(modules[m].url) # <<>>

(***************************************************************************)
(* importModuleDynamically(specifier, parentModule)                        *)
(***************************************************************************)
\* const dynamicModule = await linker(specifier, parentModule);
\* if ('link' in dynamicModule) await dynamicModule.link(linker)
\* (link refuses a module whose status is not 'unlinked')
ImportModuleDynamically(t) ==
    /\ ~exited
    /\ tasks[t].kind = "dyn"
    /\ tasks[t].pc = "returned"
    /\ LET r == tasks[t].mod
       IN  IF modules[r].status = "unlinked"
           THEN /\ modules' = StartLink(r, modules)
                /\ tasks' = Spawn([tasks EXCEPT ![t].pc = "linkwait"],
                                     LinkCalls(r, modules))
           ELSE /\ modules' = [modules EXCEPT ![r].linkCalls = @ + 1]
                /\ tasks' = Fail(t, "ERR_VM_MODULE_ALREADY_LINKED")
    /\ UNCHANGED <<entry, host, moduleMap, rootPath, compiles,
                   exited, rcall, logged, exitStatus>>

\* return dynamicModule
DynamicImportReturn(t) ==
    /\ ~exited
    /\ tasks[t].kind = "dyn"
    /\ tasks[t].pc = "linkwait"
    /\ \A j \in ChildrenOf(tasks[t].mod) : tasks[j].pc = "done"
    /\ modules' = [modules EXCEPT ![tasks[t].mod].status = "linked"]
    /\ tasks' = [tasks EXCEPT ![t].pc = "done"]
    /\ UNCHANGED <<entry, host, moduleMap, rootPath, compiles,
                   exited, rcall, logged, exitStatus>>

(***************************************************************************)
(* The host: execute(), and the bodies of the evaluated modules            *)
(***************************************************************************)
\* the body of the module raises an exception when it runs
Throws(m) ==
    modules[m].kind = "source" /\ SourceOf(FileURLToPath(modules[m].url)).throws

\* the bodies that run: those in evaluation order up to the first that throws
RECURSIVE Ran(_)
Ran(order) ==
    IF order = <<>> THEN <<>>
    ELSE IF Throws(Head(order)) THEN <<Head(order)>>
    ELSE <<Head(order)>> \o Ran(Tail(order))

\* the effect of evaluate() on the module objects and on the pending calls
Evaluate(ran) ==
    LET importers == SelectSeq(ran, HasDynamics)
    IN  /\ modules' =
              [m \in ModuleIds |->
                 IF InSeq(m, ran)
                 THEN [modules[m] EXCEPT
                         !.evalCount = @ + 1,
                         !.exports = modules[m].bag,
                         !.dynPos = IF HasDynamics(m) THEN 1 ELSE 0]
                 ELSE modules[m]]
        /\ tasks' = Spawn(tasks,
              [i \in 1..Len(importers) |->
                 LinkerCall("dyn", DynamicsOf(modules[importers[i]].url)[1],
                            importers[i], 1, modules)])

\* an execute whose evaluation errors end in the log-and-exit of the catch block
ExecuteInsideTry ==
    /\ ~exited
    /\ host = "ready"
    /\ LET ran == Ran(EvalOrder(tasks[1].mod))
           thrown == \E i \in 1..Len(ran) : Throws(ran[i])
       IN  /\ Evaluate(ran)
           /\ host' = IF thrown THEN "exited" ELSE "executed"
           /\ exited' = thrown
           /\ logged' = IF thrown THEN Append(logged, "EvalError") ELSE logged
           /\ exitStatus' = IF thrown THEN Append(exitStatus, 0) ELSE exitStatus
    /\ UNCHANGED <<entry, moduleMap, rootPath, compiles, rcall>>

\* execute: () => sourceTextModule.evaluate().  The bodies run in evaluation
\* order; each body reaches its first dynamic import, which calls the hook.
\* An exception raised by a body rejects evaluate(), and with it execute().
Execute ==
    /\ ~exited
    /\ host = "ready"
    /\ LET ran == Ran(EvalOrder(tasks[1].mod))
           thrown == \E i \in 1..Len(ran) : Throws(ran[i])
       IN  /\ Evaluate(ran)
           /\ host' = IF thrown THEN "threw" ELSE "executed"
    /\ UNCHANGED <<entry, moduleMap, rootPath, compiles, exited, rcall, logged,
                   exitStatus>>

\* a body whose dynamic import has settled goes on to its next one
DynNext(m) ==
    /\ ~exited
    /\ modules[m].dynPos >= 1
    /\ modules[m].dynPos < Len(DynamicsOf(modules[m].url))
    /\ \E t \in TaskIds :
          /\ tasks[t].kind = "dyn"
          /\ tasks[t].parent = m
          /\ tasks[t].slot = modules[m].dynPos
          /\ tasks[t].pc \in {"done", "failed"}
    /\ modules' = [modules EXCEPT ![m].dynPos = @ + 1]
    /\ tasks' = Spawn(tasks,
          <<LinkerCall("dyn", DynamicsOf(modules[m].url)[modules[m].dynPos + 1],
                       m, modules[m].dynPos + 1, modules)>>)
    /\ UNCHANGED <<entry, host, moduleMap, rootPath, compiles,
                   exited, rcall, logged, exitStatus>>

Next ==
    \/ Instantiate
    \/ \E t \in TaskIds : ReadDone(t)
    \/ \E t \in TaskIds : ConfigDone(t)
    \/ \E t \in TaskIds : BuildFailed(t)
    \/ \E t \in TaskIds : LinkerResume(t)
    \/ \E t \in TaskIds : LinkerBuilt(t)
    \/ \E t \in TaskIds : NativeImported(t)
    \/ \E t \in TaskIds : InstantiateBuilt(t)
    \/ \E t \in TaskIds : InstantiateReturn(t)
    \/ \E t \in TaskIds : InstantiateCatch(t)
    \/ \E t \in TaskIds : LinkCallback(t)
    \/ \E t \in TaskIds : LinkFulfilled(t)
    \/ \E t \in TaskIds : LinkRejected(t)
    \/ \E t \in TaskIds : ImportModuleDynamically(t)
    \/ \E t \in TaskIds : DynamicImportReturn(t)
    \/ Execute
    \/ \E m \in ModuleIds : DynNext(m)

Spec == Init /\ [][Next]_vars

\* the event loop runs the continuation of a settled await: once the try
\* block of dynamicInstantiate was left by a rejection, its catch block runs
FairSpec == Spec /\ WF_vars(\E t \in TaskIds : InstantiateCatch(t))

(***************************************************************************)
(* Properties                                                              *)
(***************************************************************************)
LinkerTasks == {t \in TaskIds : tasks[t].kind # "inst"}

TypedCalls == {t \in LinkerTasks : tasks[t].format = "dynamic"}

\* the linker call of t has returned a module
Returned(t) == tasks[t].mod # 0

\* C1: two linker calls for the same typed-source URL made one after the
\* other (neither in flight together with another call for that URL) return
\* the same module object, and at most one of them invoked the compiler.
C1_IdempotentCaching ==
    \A t1, t2 \in TypedCalls :
        ( /\ t1 < t2
          /\ tasks[t1].url = tasks[t2].url
          /\ Returned(t1) /\ Returned(t2)
          /\ tasks[t1].alone /\ tasks[t2].alone )
        => /\ tasks[t1].mod = tasks[t2].mod
           /\ tasks[t1].built + tasks[t2].built <= 1

C1_Witness ==
    \E t1, t2 \in TypedCalls :
        /\ t1 < t2
        /\ tasks[t1].url = tasks[t2].url
        /\ tasks[t1].alone /\ tasks[t2].alone
        /\ tasks[t1].built = 1 /\ tasks[t2].built = 0
        /\ Returned(t1) /\ tasks[t2].mod = tasks[t1].mod

\* C2: while dynamicInstantiate walks the static import graph, no URL is
\* compiled more than once.
C2_CompiledAtMostOnce ==
    host \in {"instantiating", "ready"}
        => \A u \in DOMAIN compiles : compiles[u] <= 1

DepsOf(m) == {modules[m].deps[i] : i \in DOMAIN modules[m].deps} \ {0}

LinkedOK(m) ==
    /\ modules[m].status = "linked"
    /\ \A i \in DOMAIN modules[m].deps : modules[m].deps[i] # 0

Quiescent == \A t \in TaskIds : tasks[t].pc \in {"done", "failed"}

\* C3: once dynamicInstantiate has returned and every resolve/build/link
\* operation started since has finished (with a module or with a failure),
\* every module in the cache is fully linked.
C3_NoPartialSuccess ==
    (host \in {"ready", "executed"} /\ Quiescent)
        => \A u \in DOMAIN moduleMap : LinkedOK(moduleMap[u])

\* C4: after the compiler failed for a URL inside linker, the cache holds no
\* entry for that URL, and every later linker call for the URL that got past
\* resolve invoked the compiler again.
C4_FailedBuildNotCached ==
    \A t \in LinkerTasks :
        (tasks[t].pc = "failed" /\ tasks[t].err = "TSError")
        => /\ ~CacheHas(tasks[t].url)
           /\ \A t2 \in LinkerTasks :
                 ( /\ t2 > t
                   /\ tasks[t2].url = tasks[t].url
                   /\ tasks[t2].pc # "resolved" )
                 => tasks[t2].built = 1

C4_Witness ==
    \E t, t2 \in LinkerTasks :
        /\ t2 > t
        /\ tasks[t2].url = tasks[t].url
        /\ tasks[t].pc = "failed" /\ tasks[t].err = "TSError"
        /\ tasks[t2].pc = "failed" /\ tasks[t2].err = "TSError"
        /\ tasks[t2].built = 1
        /\ ~tasks[t2].cached
        /\ compiles[tasks[t].url] >= 2

RECURSIVE Closure(_, _)
Closure(frontier, seen) ==
    IF frontier = {} THEN seen
    ELSE LET all == seen \cup frontier
         IN  Closure((UNION {DepsOf(m) : m \in frontier}) \ all, all)

\* C5: execute is handed to the host only after the entry module's link step
\* has completed, and every module whose body has run is linked together with
\* everything it imports, directly or indirectly.
C5_LinkedBeforeEvaluate ==
    /\ host \in {"ready", "executed"} => LinkedOK(tasks[1].mod)
    /\ \A m \in ModuleIds :
          modules[m].evalCount > 0
              => \A d \in Closure({m}, {}) : LinkedOK(d)

C5_Witness ==
    /\ host = "executed"
    /\ \E a, b, c \in ModuleIds :
          /\ a = tasks[1].mod
          /\ b \in DepsOf(a) /\ c \in DepsOf(b)
          /\ a # b /\ b # c /\ a # c
          /\ modules[a].evalCount = 1
          /\ modules[b].evalCount = 1
          /\ modules[c].evalCount = 1

Builders(u) ==
    {t \in TypedCalls : tasks[t].url = u /\ tasks[t].built = 1 /\ Returned(t)}

\* C6: linker calls that each compiled a URL hold different module objects,
\* and the cache maps the URL to the module that was inserted last (modules
\* are numbered in construction order, and linker inserts as it constructs).
C6_SecondInsertWins ==
    \A u \in DOMAIN moduleMap :
        /\ \E t \in Builders(u) : moduleMap[u] = tasks[t].mod
        /\ \A t \in Builders(u) : tasks[t].mod <= moduleMap[u]
        /\ \A t1, t2 \in Builders(u) :
              t1 # t2 => tasks[t1].mod # tasks[t2].mod

C6_Witness ==
    \E t1, t2 \in TypedCalls :
        /\ t1 # t2
        /\ tasks[t1].url = tasks[t2].url
        /\ ~tasks[t1].cached /\ ~tasks[t2].cached
        /\ tasks[t1].built = 1 /\ tasks[t2].built = 1
        /\ Returned(t1) /\ Returned(t2)
        /\ tasks[t1].mod < tasks[t2].mod
        /\ moduleMap[tasks[t1].url] = tasks[t2].mod
        /\ tasks[t1].pc = "done" /\ tasks[t2].pc = "done"

\* C7: a dynamic import of a typed-source URL that was not cached, with no
\* other request for the URL in flight, has on return built the target once,
\* stored it in the cache under its URL, linked it, and executed it once.
C7_DynamicImportOnce ==
    \A t \in TypedCalls :
        ( /\ tasks[t].kind = "dyn"
          /\ tasks[t].pc = "done"
          /\ ~tasks[t].cached
          /\ tasks[t].alone )
        => /\ tasks[t].built = 1
           /\ moduleMap[tasks[t].url] = tasks[t].mod
           /\ LinkedOK(tasks[t].mod)
           /\ modules[tasks[t].mod].evalCount = 1

ClaimedPath(specifier) ==
    \/ StartsWith(specifier, <<".", "/">>)
    \/ StartsWith(specifier, <<".", ".", "/">>)
    \/ StartsWith(specifier, <<"/">>)

ClaimedBare(specifier) ==
    ~ClaimedPath(specifier) /\ ~StartsWith(specifier, FileScheme)

\* C8: resolve treats a specifier as a bare package reference exactly when it
\* starts with none of './', '../', '/' and 'file:'; it then answers with the
\* fallback resolver's result, or {url: specifier, format: 'module'} without
\* one; every other specifier is resolved as a path against the referrer.
C8_BareClassification ==
    rcall.pc = "returned"
        => rcall.result =
             IF ClaimedBare(rcall.specifier)
             THEN IF rcall.fallback # None
                  THEN DefaultResolver(rcall.fallback, rcall.specifier, rcall.parent)
                  ELSE [format |-> "module", url |-> rcall.specifier]
             ELSE ResolvePath(rcall.specifier, rcall.parent)

\* C9: for an extension-less path specifier, resolve answers 'dynamic' with
\* the URL of the single file when the glob returns exactly one file, and
\* 'module' with the URL resolved against the referrer when the glob returns
\* none or several.
C9_ExtensionInference ==
    ( /\ rcall.pc = "returned"
      /\ ClaimedPath(rcall.specifier)
      /\ ExtName(NewURL(rcall.specifier, rcall.parent).pathname) = <<>> )
    => IF Len(rcall.glob) = 1
       THEN rcall.result = [format |-> "dynamic", url |-> FileURL(rcall.glob[1])]
       ELSE rcall.result = [format |-> "module",
                            url |-> NewURL(rcall.specifier, rcall.parent).href]

C9_Witness ==
    /\ rcall.pc = "returned"
    /\ rcall.specifier = Here(<<"b">>)
    /\ rcall.parent = FileURL(PA)
    /\ rcall.glob = <<PB>>
    /\ rcall.result = [format |-> "dynamic", url |-> FileURL(PB)]

\* the property bag the claim describes: the named exports, and the
\* properties of an object default export that no named export shadows
BagKeys(ns) ==
    DOMAIN ns \cup
    (IF "default" \in DOMAIN ns /\ ns["default"].t = "obj"
     THEN DOMAIN ns["default"].props ELSE {})

BagValue(ns, k) == IF k \in DOMAIN ns THEN ns[k] ELSE ns["default"].props[k]

\* C10: a native module's export names are the keys of the flattened bag
\* (named exports over the default export's properties), fixed when the
\* module is built, and evaluation sets every export to the bag's value.
C10_NativeFlattening ==
    \A m \in ModuleIds :
        modules[m].kind = "synthetic"
        => LET ns == NativeNamespace(modules[m].url)
           IN  /\ modules[m].names = BagKeys(ns)
               /\ DOMAIN modules[m].bag = BagKeys(ns)
               /\ \A k \in BagKeys(ns) : modules[m].bag[k] = BagValue(ns, k)
               /\ modules[m].evalCount > 0
                     => /\ DOMAIN modules[m].exports = modules[m].names
                        /\ \A k \in modules[m].names :
                              modules[m].exports[k] = BagValue(ns, k)

C10_Witness ==
    \E m \in ModuleIds :
        /\ modules[m].kind = "synthetic"
        /\ modules[m].url = FileURL(PLib)
        /\ modules[m].evalCount = 1
        /\ modules[m].names = {"default", "a", "b"}
        /\ modules[m].exports["a"] = Num(2)
        /\ modules[m].exports["b"] = Num(1)

\* dynamicInstantiate's try block was left by a rejection
InstFailed == tasks # <<>> /\ tasks[1].pc = "failed"

\* C11: when the build of the entry module or the link of its static import
\* graph fails inside dynamicInstantiate, no {exports, execute} record reaches
\* the host, and the failure is followed by the process exiting, having logged
\* that error once and passed status 0 to process.exit.
C11_TopLevelFailurePolicy ==
    /\ [](InstFailed => host \in {"instantiating", "exited"})
    /\ [](exited => /\ InstFailed
                    /\ host = "exited"
                    /\ logged = <<tasks[1].err>>
                    /\ exitStatus = <<0>>)
    /\ (InstFailed ~> exited)

C11_Witness ==
    /\ entry = FileURL(PY)
    /\ exited
    /\ host = "exited"
    /\ tasks[1].mod # 0
    /\ modules[tasks[1].mod].status = "errored"
    /\ logged = <<"LinkError">>
    /\ exitStatus = <<0>>

\* C12: a failure of a resolve, build or link step exists only while
\* dynamicInstantiate is still running (its try block will receive it) or
\* after it has logged the failure and exited; no call fails after
\* dynamicInstantiate has returned to the host.
C12_SingleRecoveryBoundary ==
    \A t \in TaskIds :
        tasks[t].pc = "failed" => host \in {"instantiating", "exited"}

\* C13: when a module body raises an exception during the evaluate step that
\* execute started, execute is rejected to its caller, and nothing is logged
\* and process.exit is not called.
C13_EvaluationErrorsPropagate ==
    /\ \A m \in ModuleIds :
          (modules[m].evalCount > 0 /\ Throws(m))
              => /\ host = "threw"
                 /\ ~exited
                 /\ logged = <<>>
                 /\ exitStatus = <<>>
    /\ host = "threw" => \E m \in ModuleIds : modules[m].evalCount > 0 /\ Throws(m)

C13_Witness ==
    /\ entry = FileURL(PR)
    /\ host = "threw"
    /\ ~exited
    /\ \E r, t, e \in ModuleIds :
          /\ r = tasks[1].mod
          /\ t \in DepsOf(r) /\ e \in DepsOf(t)
          /\ modules[e].evalCount = 1
          /\ modules[t].evalCount = 1 /\ Throws(t)
          /\ modules[r].evalCount = 0

\* the calls that ran transpileTypeScriptToModule past its diagnostic pass
PastDiagnostics ==
    {t \in TaskIds :
        /\ tasks[t].built = 1
        /\ tasks[t].pc \notin BuildingPcs
        /\ tasks[t].err # "ENOENT"}

\* C14: a compile whose pre-emit pass reported diagnostics fails with an
\* error carrying exactly that list and hands out no module; a compile whose
\* pass reported none hands out a module for the file; either way the
\* single-file transform has run; no module object exists for a file that
\* has diagnostics.
C14_DiagnosticSurfacing ==
    /\ \A t \in PastDiagnostics :
          /\ tasks[t].transformed
          /\ tasks[t].diagnostics = PreEmitDiagnostics(tasks[t].url)
          /\ IF tasks[t].diagnostics # <<>>
             THEN /\ tasks[t].pc = "failed"
                  /\ tasks[t].err = "TSError"
                  /\ tasks[t].carried = tasks[t].diagnostics
                  /\ tasks[t].mod = 0
             ELSE /\ tasks[t].err # "TSError"
                  /\ tasks[t].mod # 0
                  /\ modules[tasks[t].mod].kind = "source"
                  /\ modules[tasks[t].mod].url = tasks[t].url
    /\ \A m \in ModuleIds :
          modules[m].kind = "source" => PreEmitDiagnostics(modules[m].url) = <<>>

C14_Witness ==
    \E t1, t2 \in PastDiagnostics :
        /\ tasks[t1].url = FileURL(PX)
        /\ tasks[t1].transformed
        /\ tasks[t1].pc = "failed"
        /\ tasks[t1].carried = <<"TS2322", "TS2304">>
        /\ tasks[t1].mod = 0
        /\ tasks[t2].url = FileURL(PY)
        /\ tasks[t2].transformed
        /\ tasks[t2].diagnostics = <<>>
        /\ tasks[t2].mod # 0

\* C15: once dynamicInstantiate has built the entry module, the cache maps
\* the entry URL to a module, and every linker call that resolved to the
\* entry URL and returned has returned the module dynamicInstantiate built.
C15_EntryCachedLikeStep3 ==
    (tasks # <<>> /\ tasks[1].mod # 0)
        => /\ CacheHas(entry)
           /\ \A t \in TypedCalls :
                 (tasks[t].url = entry /\ Returned(t))
                     => tasks[t].mod = tasks[1].mod

NativeCalls == {t \in LinkerTasks : tasks[t].format \in {"commonjs", "module"}}

\* what holds of the native linker calls and of the cache in every state
NativeBypass ==
    /\ \A t \in NativeCalls :
          Returned(t)
              => /\ tasks[t].built = 0
                 /\ modules[tasks[t].mod].kind = "synthetic"
                 /\ modules[tasks[t].mod].url = tasks[t].url
                 /\ modules[tasks[t].mod].deps = <<>>
                 /\ ChildrenOf(tasks[t].mod) = {}
                 /\ \A u \in DOMAIN moduleMap : moduleMap[u] # tasks[t].mod
                 /\ \A t2 \in LinkerTasks \ {t} : tasks[t2].mod # tasks[t].mod
    /\ \A u \in DOMAIN moduleMap :
          /\ \E t \in TypedCalls : tasks[t].url = u
          /\ \A t \in NativeCalls : tasks[t].url # u
          /\ modules[moduleMap[u]].kind = "source"

\* C16: a linker call with a native format returns a module object of its
\* own (no other call holds it, the cache does not hold it) with no
\* dependencies and no nested linker calls; no step of such a call changes
\* the cache; every cache key was resolved with the format 'dynamic'.
C16_NativeBypassesCache ==
    /\ []NativeBypass
    /\ [][\A t \in NativeCalls :
             tasks'[t] # tasks[t] => moduleMap' = moduleMap]_vars

C16_Witness ==
    \E t1, t2 \in NativeCalls :
        /\ t1 # t2
        /\ tasks[t1].url = FileURL(PLib)
        /\ tasks[t2].url = FileURL(PLib)
        /\ tasks[t1].pc = "done" /\ tasks[t2].pc = "done"
        /\ tasks[t1].mod # tasks[t2].mod
        /\ modules[tasks[t1].mod].kind = "synthetic"
        /\ modules[tasks[t2].mod].kind = "synthetic"

\* the calls that asked for a typed-source URL and hold a module
TypedHolders == {t \in TaskIds : tasks[t].format = "dynamic" /\ tasks[t].mod # 0}

\* C17: a module in the cache carries the URL of its key; a typed-source
\* module held by a linker call or by dynamicInstantiate carries, as url and
\* as import-metadata url, the resolved URL it was requested with; and every
\* linker call made for an import inside such a module resolved its
\* specifier against that URL.
C17_UrlInvariant ==
    /\ \A u \in DOMAIN moduleMap : modules[moduleMap[u]].url = u
    /\ \A t \in TypedHolders :
          /\ modules[tasks[t].mod].kind = "source"
          /\ modules[tasks[t].mod].url = tasks[t].url
          /\ modules[tasks[t].mod].metaUrl = tasks[t].url
          /\ \A c \in LinkerTasks :
                tasks[c].parent = tasks[t].mod
                    => LET r == Resolve(tasks[c].specifier, tasks[t].url, None)
                       IN  tasks[c].url = r.url /\ tasks[c].format = r.format

C17_Witness ==
    \E t, c \in TypedHolders :
        /\ tasks[t].url = FileURL(QG)
        /\ moduleMap[FileURL(QG)] = tasks[t].mod
        /\ modules[tasks[t].mod].url = FileURL(QG)
        /\ tasks[c].parent = tasks[t].mod
        /\ tasks[c].specifier = UpP(<<"e">> \o TsExt)
        /\ tasks[c].url = FileURL(PE)
        /\ FileURL(PE) \in DOMAIN moduleMap
        /\ modules[tasks[c].mod].url = FileURL(PE)
        /\ modules[tasks[c].mod].metaUrl = FileURL(PE)

\* C18: link is called at most once on every module object (linkCalls counts
\* the calls the vm library's link step makes on the modules linker returned
\* to it, the call of dynamicInstantiate and the calls of the dynamic-import
\* hook).
C18_LinkStartedAtMostOnce ==
    \A m \in ModuleIds : modules[m].linkCalls <= 1

\* C19: the active project root that a compilation found when it ran
\* createProgram (root, recorded at that step) is the directory of the file
\* being compiled.
C19_RootPathAtDiagnosticPass ==
    \A t \in TaskIds :
        tasks[t].root # <<>>
            => tasks[t].root = DirName(FileURLToPath(tasks[t].url))

\* C20: resolve without a fallback resolver answers 'module' or 'dynamic'
\* for every specifier and referrer (tried, before anything runs, on all
\* specifiers and referrers of the resolve hook's input space), every linker
\* call has one of these two formats, and no linker call fails with
\* 'INVALID Import type'.
C20_InvalidImportTypeUnreachable ==
    /\ host = "idle"
          => \A specifier \in Specifiers, parent \in Referrers :
                Resolve(specifier, parent, None).format \in {"module", "dynamic"}
    /\ \A t \in LinkerTasks :
          /\ tasks[t].format \in {"module", "dynamic"}
          /\ tasks[t].err # "INVALID Import type"

C20_Witness ==
    \E t \in LinkerTasks :
        /\ tasks[t].specifier = BarePkg
        /\ IsBare(tasks[t].specifier)
        /\ tasks[t].format = "module"
        /\ tasks[t].url = BarePkg
        /\ tasks[t].pc = "done"
        /\ modules[tasks[t].mod].kind = "synthetic"

====
